---- MODULE Spec2Model ----
(***************************************************************************)
(* A model of the struct-of-arrays container generated by the soa! macro   *)
(* of src/src/lib.rs (Soa2 / Soa3 / Soa4).                                 *)
(*                                                                         *)
(* Memory is a heap of buffers; every buffer is one allocation holding one *)
(* sub-array per field.  A slot of a sub-array holds a field value or is   *)
(* uninitialised.  Values are owned: ptr::read and copy_nonoverlapping     *)
(* move the value out of the slot they read (the slot is left logically    *)
(* uninitialised), which is how the code treats the slots it reads.        *)
(* Indices are 0-based, as in the code.                                    *)
(***************************************************************************)
EXTENDS Integers, Sequences, FiniteSets, Bags, TLC

\* Number of fields of the generated struct: Soa2 (soa!(Soa2, _2, T1, T2)).
NFields == 2

\* The most fields a generated struct has: Soa4 (soa!(Soa4, _4, T1, T2, T3, T4)).
MaxFields == 4

\* Bounds of the model: the records created (pushed or cloned) under each
\* specification, the data they carry, the views a caller holds.
MaxRecs == 5        \* Spec: one container, every operation but clone
MaxPush == 9        \* SpecGrow: pushes only, across the growths 0->4->8->16
NumGrowKeys == 2    \* SpecGrow: distinct data
MaxSortRecs == 4    \* SpecSort: pushes and sorts; Spec: records sorted at once
NumKeys == 3        \* SpecSort: distinct data
MaxCloneRecs == 4   \* SpecClone, SpecWrite, SpecUnwind: two containers
MaxViewRecs == 2    \* SpecViews: one container and the views of it
MaxViews == 4       \* SpecViews: views held at once
MaxGetRecs == 3     \* SpecBounds: one container, indices in and out of range
MaxLayoutCap == 4   \* SpecLayout: capacities laid out
UsizeMax == 64      \* SpecLayout: the largest usize (sizes beyond it overflow)

Fields == 1..NFields
Keys == 1..NumKeys
GrowKeys == 1..NumGrowKeys
\* The datum of the records of Spec and SpecViews: the operations but sort
\* never look at the data, and a sort of equal records may leave any order.
OneKey == {1}
\* The datum written through slices_mut in SpecWrite.
Written == {2}
Containers == {1, 2}
\* The container that new() made.
Solo == {1}

VARIABLES
  soa,      \* the containers: [len, capacity, ptr], or NoSoa
  heap,     \* the allocator's buffers, in allocation order
  nextId,   \* the identity of the next record a caller (or clone) creates
  pushed,   \* the records pushed so far, in order
  held,     \* records handed to the caller by pop / swap_remove
  torn,     \* bag of the field values torn down (dropped) so far
  views,    \* the views (slices, iterators, references) the caller holds
  last      \* the last call: [op, c, arg, ret]

vars == <<soa, heap, nextId, pushed, held, torn, views, last>>

----------------------------------------------------------------------------
\* Values, slots, pointers

\* An uninitialised (or moved-out) slot.
Uninit == [id |-> 0, f |-> 0, d |-> 0]

\* The value of field f of the record with identity id and datum d.
FieldValue(id, f, d) == [id |-> id, f |-> f, d |-> d]

\* The record a caller builds to push: one value per field.
Record(id, d) == [f \in Fields |-> FieldValue(id, f, d)]

\* NonNull::dangling(): a pointer into no buffer.
Dangling(f) == [buf |-> 0, sub |-> f]

\* No container (never constructed, or dropped).
NoSoa == [len |-> 0, capacity |-> 0, ptr |-> <<>>]

Unit == [tag |-> "unit", val |-> <<>>]
None == [tag |-> "none", val |-> <<>>]
Some(r) == [tag |-> "some", val |-> r]
Panic == [tag |-> "panic", val |-> <<>>]

Max(a, b) == IF a >= b THEN a ELSE b
Min(a, b) == IF a <= b THEN a ELSE b

\* The slot ptr.add(i) of heap h.
Slot(h, p, i) == h[p.buf].cells[p.sub][i]

\* write(ptr.add(i), v)
WriteSlot(h, p, i, v) == [h EXCEPT ![p.buf].cells[p.sub][i] = v]

\* The record at index i of container s: the tuple of its fields' slots.
RecordAt(h, s, i) == [f \in Fields |-> Slot(h, s.ptr[f], i)]

\* The records at 0..len-1, as a sequence (position i+1 holds index i).
Records(h, s) == [i \in 1..s.len |-> RecordAt(h, s, i - 1)]

----------------------------------------------------------------------------
\* The container's operations, as functions of the heap and the container

new == [len |-> 0, capacity |-> 0, ptr |-> [f \in Fields |-> Dangling(f)]]

\* alloc(capacity): a fresh buffer of uninitialised slots, partitioned into
\* one sub-array per field; returns <<heap, pointers>>.
alloc(h, capacity) ==
  LET b == Len(h) + 1
      buffer == [live |-> TRUE, cap |-> capacity,
                 cells |-> [f \in Fields |-> [i \in 0..(capacity - 1) |-> Uninit]]]
  IN  <<Append(h, buffer), [f \in Fields |-> [buf |-> b, sub |-> f]]>>

\* dealloc(): releases the buffer the first field's pointer is the base of.
dealloc(h, s) ==
  IF s.capacity > 0
  THEN [h EXCEPT ![s.ptr[1].buf] = [live |-> FALSE, cap |-> @.cap, cells |-> <<>>]]
  ELSE h

\* copy_nonoverlapping(src, dst, n): moves the n slots src.add(0..n-1) to
\* dst.add(0..n-1); the source slots are left moved-out.
RECURSIVE copy_nonoverlapping(_, _, _, _)
copy_nonoverlapping(h, src, dst, n) ==
  IF n = 0 THEN h
  ELSE LET h1 == copy_nonoverlapping(h, src, dst, n - 1)
           v == Slot(h1, src, n - 1)
       IN  WriteSlot(WriteSlot(h1, dst, n - 1, v), src, n - 1, Uninit)

\* The copy of check_grow, made for the first field only.
copy_fields_first_only(h, from, to, n, nf) ==
  copy_nonoverlapping(h, from[1], to[1], n)

\* The copy of check_grow, one copy_nonoverlapping per field (fields 1..nf).
RECURSIVE copy_fields(_, _, _, _, _)
copy_fields(h, from, to, n, nf) ==
  IF nf = 0 THEN h
  ELSE copy_nonoverlapping(copy_fields(h, from, to, n, nf - 1),
                           from[nf], to[nf], n)

\* A growth by one slot.
grow_by_one(capacity) == capacity + 1

\* The capacity check_grow grows to.
grow_capacity(capacity) == Max(capacity * 2, 4)

\* check_grow(): returns <<heap, container>>.
check_grow(h, s) ==
  IF s.len = s.capacity
  THEN LET capacity == grow_capacity(s.capacity)
           a == alloc(h, capacity)
           copied == copy_fields(a[1], s.ptr, a[2], s.len, NFields)
           freed == dealloc(copied, s)
       IN  <<freed, [s EXCEPT !.ptr = a[2], !.capacity = capacity]>>
  ELSE <<h, s>>

\* The writes of push, made at index 0 whatever the index.
RECURSIVE write_fields_at_zero(_, _, _, _, _)
write_fields_at_zero(h, s, i, value, n) ==
  IF n = 0 THEN h
  ELSE WriteSlot(write_fields_at_zero(h, s, i, value, n - 1), s.ptr[n], 0, value[n])

\* push(value): returns <<heap, container>>.
RECURSIVE write_fields(_, _, _, _, _)
write_fields(h, s, i, value, n) ==
  IF n = 0 THEN h
  ELSE WriteSlot(write_fields(h, s, i, value, n - 1), s.ptr[n], i, value[n])

push(h, s, value) ==
  LET g == check_grow(h, s)
      written == write_fields(g[1], g[2], g[2].len, value, NFields)
  IN  <<written, [g[2] EXCEPT !.len = @ + 1]>>

\* read(ptr.add(i)) of every field: returns <<heap, record>>.
RECURSIVE read_fields(_, _, _, _)
read_fields(h, s, i, n) ==
  IF n = 0 THEN <<h, <<>>>>
  ELSE LET r == read_fields(h, s, i, n - 1)
       IN  <<WriteSlot(r[1], s.ptr[n], i, Uninit),
             Append(r[2], Slot(r[1], s.ptr[n], i))>>

\* A pop that panics on an empty container.
pop_or_panic(h, s) ==
  IF s.len = 0
  THEN <<h, s, Panic>>
  ELSE LET s1 == [s EXCEPT !.len = @ - 1]
           r == read_fields(h, s1, s1.len, NFields)
       IN  <<r[1], s1, Some(r[2])>>

\* pop(): returns <<heap, container, Option<record>>>.
pop(h, s) ==
  IF s.len = 0
  THEN <<h, s, None>>
  ELSE LET s1 == [s EXCEPT !.len = @ - 1]
           r == read_fields(h, s1, s1.len, NFields)
       IN  <<r[1], s1, Some(r[2])>>

\* Dropping a record tears down each of its fields.
drop_record(t, r) == t (+) SetToBag({r[f] : f \in DOMAIN r})

\* A clear that pops once.
clear_once(h, s, t) ==
  IF s.len > 0
  THEN LET p == pop(h, s)
       IN  <<p[1], p[2], drop_record(t, p[3].val)>>
  ELSE <<h, s, t>>

\* clear(): pops until empty, dropping what pop returns;
\* returns <<heap, container, torn>>.
RECURSIVE clear(_, _, _)
clear(h, s, t) ==
  IF s.len > 0
  THEN LET p == pop(h, s)
       IN  clear(p[1], p[2], drop_record(t, p[3].val))
  ELSE <<h, s, t>>

\* The relocation of swap_remove: copy_nonoverlapping(ptr.add(len), ptr.add(index), 1)
\* of every field (fields 1..nf).
RECURSIVE move_last(_, _, _, _, _)
move_last(h, s, from, to, nf) ==
  IF nf = 0 THEN h
  ELSE LET h1 == move_last(h, s, from, to, nf - 1)
           v == Slot(h1, s.ptr[nf], from)
       IN  WriteSlot(WriteSlot(h1, s.ptr[nf], to, v), s.ptr[nf], from, Uninit)

\* swap_remove without the relocation of the last record.
swap_remove_no_move(h, s, index) ==
  LET v == read_fields(h, s, index, NFields)
  IN  <<v[1], [s EXCEPT !.len = @ - 1], v[2]>>

\* swap_remove that removes the last record whatever the index.
swap_remove_takes_last(h, s, index) ==
  LET s1 == [s EXCEPT !.len = @ - 1]
      v == read_fields(h, s1, s1.len, NFields)
  IN  <<v[1], s1, v[2]>>

\* swap_remove(index) for index < len: returns <<heap, container, record>>.
swap_remove(h, s, index) ==
  LET v == read_fields(h, s, index, NFields)
      s1 == [s EXCEPT !.len = @ - 1]
      moved == IF s1.len # index
               THEN move_last(v[1], s1, s1.len, index, NFields)
               ELSE v[1]
  IN  <<moved, s1, v[2]>>

----------------------------------------------------------------------------
\* sort_unstable_by

\* The caller's comparator f: here the order of the first field's datum
\* (a1.cmp(a2) of tests::sort), a total preorder on records.
cmp(a, b) ==
  IF a[1].d < b[1].d THEN "Less"
  ELSE IF a[1].d > b[1].d THEN "Greater"
  ELSE "Equal"

\* The permutations of 0..n-1.
Perms(n) == Permutations(0..(n - 1))

\* What indices.sort_unstable_by(f) may leave in indices: any permutation of
\* 0..len-1 in which no earlier index's record is Greater than a later one's
\* (the sort is unstable: equal records come in any order).
sorted_indices(h, s) ==
  LET recs == [i \in 0..(s.len - 1) |-> RecordAt(h, s, i)]
  IN  {p \in Perms(s.len) :
         \A i, j \in 0..(s.len - 1) :
           i < j => cmp(recs[p[i]], recs[p[j]]) # "Greater"}

\* A lookup left as the identity.
lookup_identity(indices) == [x \in DOMAIN indices |-> x]

\* lookup[indices[i]] = i
build_lookup(indices) ==
  [x \in DOMAIN indices |-> CHOOSE i \in DOMAIN indices : indices[i] = x]

\* slice.swap(i, dest) of one field's mutable slice, which aliases the
\* sub-array at p.
swap_slots(h, p, i, dest) ==
  WriteSlot(WriteSlot(h, p, i, Slot(h, p, dest)), p, dest, Slot(h, p, i))

\* The swaps of one iteration, made in the first field's slice only.
swap_fields_first_only(h, s, i, dest, nf) ==
  IF nf = 0 THEN h ELSE swap_slots(h, s.ptr[1], i, dest)

\* The swaps of one iteration: one per field (fields 1..nf).
RECURSIVE swap_fields(_, _, _, _, _)
swap_fields(h, s, i, dest, nf) ==
  IF nf = 0 THEN h
  ELSE swap_slots(swap_fields(h, s, i, dest, nf - 1), s.ptr[nf], i, dest)

\* An iteration that swaps and leaves indices and lookup as they were.
sort_step_no_bookkeeping(st, s, i) ==
  LET dest == st.indices[i]
  IN  IF i # dest
      THEN [st EXCEPT !.h = swap_fields(st.h, s, i, dest, NFields)]
      ELSE st

\* One iteration of the loop that applies the permutation, at position i;
\* st = [h, indices, lookup].
sort_step(st, s, i) ==
  LET dest == st.indices[i]
  IN  IF i # dest
      THEN [h |-> swap_fields(st.h, s, i, dest, NFields),
            indices |-> [st.indices EXCEPT ![st.lookup[i]] = dest],
            lookup |-> [st.lookup EXCEPT ![dest] = st.lookup[i]]]
      ELSE st

\* The first n iterations of the loop for i in 0..indices.len().
RECURSIVE sort_loop(_, _, _)
sort_loop(st, s, n) ==
  IF n = 0 THEN st ELSE sort_step(sort_loop(st, s, n - 1), s, n - 1)

\* sort_unstable_by(f), given what the sort of the indices left: the heap.
sort_unstable_by(h, s, indices) ==
  IF s.len < 2 THEN h
  ELSE sort_loop([h |-> h, indices |-> indices,
                  lookup |-> build_lookup(indices)], s, s.len).h

----------------------------------------------------------------------------
\* Drop and Clone

\* A drop that releases the buffer without clearing.
drop_without_clear(h, s, t) == <<dealloc(h, s), t>>

\* Drop::drop: clear, then dealloc; returns <<heap, torn>>.
drop(h, s, t) ==
  LET c == clear(h, s, t)
  IN  <<dealloc(c[1], c[2]), c[3]>>

\* The first n iterations of clear's loop.
RECURSIVE clear_first(_, _, _, _)
clear_first(h, s, t, n) ==
  IF n > 0 /\ s.len > 0
  THEN LET p == pop(h, s)
       IN  clear_first(p[1], p[2], drop_record(t, p[3].val), n - 1)
  ELSE <<h, s, t>>

\* Drop::drop where the teardown of the record popped by iteration k + 1 of
\* clear's loop panics (k records were torn down before it; the fields of
\* the popped tuple are all dropped, the rest by the unwinding): the panic
\* leaves clear and drop, and dealloc is not reached.  Returns <<heap, torn>>.
drop_unwinding(h, s, t, k) ==
  LET c == clear_first(h, s, t, k + 1)
  IN  <<c[1], c[3]>>

\* T::clone of a field value: a new object (of the record with identity id)
\* equal to v by value.
clone_value(v, id) == FieldValue(id, v.f, v.d)

\* The first k writes of clone's loops: field by field, index by index.
RECURSIVE clone_writes(_, _, _, _, _)
clone_writes(h, s, to, id0, k) ==
  IF k = 0 THEN h
  ELSE LET h1 == clone_writes(h, s, to, id0, k - 1)
           f == ((k - 1) \div s.len) + 1
           i == (k - 1) % s.len
       IN  WriteSlot(h1, to[f], i, clone_value(Slot(h1, s.ptr[f], i), id0 + i))

\* A clone that copies the struct: the same pointers, no new buffer.
clone_shallow(h, s, id0, fail) == <<h, s>>

\* Clone::clone, where the T::clone call number fail+1 panics (none does when
\* fail = NFields * len): returns <<heap, container>>, the container NoSoa
\* when clone unwinds.  The new buffer's pointers are plain locals, so the
\* unwinding releases nothing.
clone(h, s, id0, fail) ==
  LET capacity == s.len
  IN  IF capacity = 0
      THEN <<h, new>>
      ELSE LET a == alloc(h, capacity)
               total == NFields * s.len
               h1 == clone_writes(a[1], s, a[2], id0, Min(fail, total))
           IN  IF fail < total
               THEN <<h1, NoSoa>>
               ELSE <<h1, [len |-> s.len, capacity |-> capacity, ptr |-> a[2]]>>

----------------------------------------------------------------------------
\* Views: slices, iters, slices_mut, get

\* A view of n slots of a field's sub-array, from ptr.add(start).
View(kind, c, p, start, n, writable) ==
  [kind |-> kind, c |-> c, ptr |-> p, start |-> start, n |-> n, mut |-> writable]

\* Whether the lifetime 'a of the views a call returns is tied to the borrow
\* of self the call takes.  slices<'a>(&self), iters<'a>(&self),
\* slices_mut<'a>(&self) and get<'a>(&self, ..) all leave 'a free.
lifetime_tied_to_self(kind) == FALSE

\* The borrows of container c the caller's views keep alive.
Loans(c) == {v \in BagToSet(views) : v.c = c /\ lifetime_tied_to_self(v.kind)}

\* A call taking &mut self (or self by value) needs no loan outstanding;
\* a call taking &self needs no exclusive loan outstanding.
CanBorrowMut(c) == Loans(c) = {}
CanBorrowShared(c) == \A v \in Loans(c) : ~v.mut

\* from_raw_parts(ptr, len) of every field: the tuple of views returned.
slices(s, c) ==
  [f \in Fields |-> View("slices", c, s.ptr[f], 0, s.len, FALSE)]

\* from_raw_parts(ptr, len).iter() of every field.
iters(s, c) ==
  [f \in Fields |-> View("iters", c, s.ptr[f], 0, s.len, FALSE)]

\* from_raw_parts_mut(ptr, len) of every field.
slices_mut(s, c) ==
  [f \in Fields |-> View("slices_mut", c, s.ptr[f], 0, s.len, TRUE)]

\* References to the fields of the first record, whatever the index.
get_first(s, c, index) ==
  [f \in Fields |-> View("get", c, s.ptr[f], 0, 1, FALSE)]

\* &*ptr.add(index) of every field, for index < len.
get(s, c, index) ==
  [f \in Fields |-> View("get", c, s.ptr[f], index, 1, FALSE)]

\* The views of a returned tuple, as a bag.
Returned(t) ==
  [v \in {t[f] : f \in DOMAIN t} |-> Cardinality({f \in DOMAIN t : t[f] = v})]

\* What a view lets its holder read: the slots start..start+n-1.
Contents(h, v) == [i \in 0..(v.n - 1) |-> Slot(h, v.ptr, v.start + i)]

----------------------------------------------------------------------------
\* The layout of a buffer

\* A field type, by size_of and align_of (the size a multiple of the
\* alignment, the alignment a power of two).
Type(size, align) == [size |-> size, align |-> align]

\* The field types laid out: (), u8, u16, [u8; 3], u32, u64, [u32; 3].
FieldTypes ==
  {Type(0, 1), Type(1, 1), Type(2, 2), Type(3, 1), Type(4, 4), Type(8, 8),
   Type(12, 4)}

\* The type parameters of Soa2, Soa3 and Soa4, in declaration order.
TypeLists == UNION {[1..n -> FieldTypes] : n \in NFields..MaxFields}

\* Layout, and the LayoutErr its constructors return on overflow.
Layout(size, align) == [ok |-> TRUE, size |-> size, align |-> align]
LayoutErr == [ok |-> FALSE, size |-> 0, align |-> 1]

\* Layout::padding_needed_for: the bytes from size up to the next multiple
\* of align.
padding_needed_for(size, align) == (align - (size % align)) % align

\* Layout::from_size_align: an error when size, rounded up to align,
\* overflows.
from_size_align(size, align) ==
  IF size + padding_needed_for(size, align) > UsizeMax
  THEN LayoutErr
  ELSE Layout(size, align)

\* Layout::array::<T>(n): n elements of T, size_of::<T>() apart; an error
\* when the size overflows.
Layout_array(t, n) ==
  IF t.size * n > UsizeMax THEN LayoutErr ELSE Layout(t.size * n, t.align)

\* Layout with no padding before the next layout.
Layout_extend_unpadded(l, next) ==
  IF l.size + next.size > UsizeMax
  THEN [ok |-> FALSE, layout |-> LayoutErr, offset |-> 0]
  ELSE [ok |-> TRUE,
        layout |-> Layout(l.size + next.size, Max(l.align, next.align)),
        offset |-> l.size]

\* Layout::extend: next placed after l at the first offset aligned for it;
\* the layout of both and that offset, or an error on overflow.
Layout_extend(l, next) ==
  LET new_align == Max(l.align, next.align)
      pad == padding_needed_for(l.size, next.align)
      offset == l.size + pad
      new_size == offset + next.size
      layout == from_size_align(new_size, new_align)
  IN  IF offset > UsizeMax \/ new_size > UsizeMax \/ ~layout.ok
      THEN [ok |-> FALSE, layout |-> LayoutErr, offset |-> 0]
      ELSE [ok |-> TRUE, layout |-> layout, offset |-> offset]

\* The struct $L: the layout of the allocation and the offset of every
\* field's sub-array in it (0 for the first field, whose pointer is the
\* allocation's); ok is FALSE where an unwrap() panicked.
L(layout, offsets) == [ok |-> TRUE, layout |-> layout, offsets |-> offsets]
LPanic == [ok |-> FALSE, layout |-> LayoutErr, offsets |-> <<>>]

\* The extends of layout_for_capacity, for the fields from k on.
RECURSIVE layout_extends(_, _, _, _)
layout_extends(l, types, capacity, k) ==
  IF ~l.ok \/ k > Len(types) THEN l
  ELSE LET a == Layout_array(types[k], capacity)
           e == Layout_extend(l.layout, a)
       IN  IF ~a.ok \/ ~e.ok THEN LPanic
           ELSE layout_extends(L(e.layout, Append(l.offsets, e.offset)),
                               types, capacity, k + 1)

layout_for_capacity(types, capacity) ==
  LET layout == Layout_array(types[1], capacity)
  IN  IF ~layout.ok THEN LPanic
      ELSE layout_extends(L(layout, <<0>>), types, capacity, 2)

----------------------------------------------------------------------------
\* The calls

Call(op, c, arg, ret) == [op |-> op, c |-> c, arg |-> arg, ret |-> ret]

Init ==
  /\ soa = [c \in Containers |-> IF c = 1 THEN new ELSE NoSoa]
  /\ heap = <<>>
  /\ nextId = 1
  /\ pushed = <<>>
  /\ held = {}
  /\ torn = EmptyBag
  /\ views = EmptyBag
  /\ last = Call("new", 1, 0, Unit)

Push(c, d) ==
  /\ soa[c] # NoSoa
  /\ CanBorrowMut(c)
  /\ LET r == push(heap, soa[c], Record(nextId, d))
     IN  /\ heap' = r[1]
         /\ soa' = [soa EXCEPT ![c] = r[2]]
  /\ nextId' = nextId + 1
  /\ pushed' = Append(pushed, Record(nextId, d))
  /\ last' = Call("push", c, d, Unit)
  /\ UNCHANGED <<held, torn, views>>

Pop(c) ==
  /\ soa[c] # NoSoa
  /\ CanBorrowMut(c)
  /\ LET r == pop(heap, soa[c])
     IN  /\ heap' = r[1]
         /\ soa' = [soa EXCEPT ![c] = r[2]]
         /\ held' = IF r[3].tag = "some" THEN held \cup {r[3].val} ELSE held
         /\ last' = Call("pop", c, 0, r[3])
  /\ UNCHANGED <<nextId, pushed, torn, views>>

SwapRemove(c, index) ==
  /\ soa[c] # NoSoa
  /\ CanBorrowMut(c)
  /\ IF index >= soa[c].len
     THEN /\ last' = Call("swap_remove", c, index, Panic)
          /\ UNCHANGED <<soa, heap, held>>
     ELSE LET r == swap_remove(heap, soa[c], index)
          IN  /\ heap' = r[1]
              /\ soa' = [soa EXCEPT ![c] = r[2]]
              /\ held' = held \cup {r[3]}
              /\ last' = Call("swap_remove", c, index, Some(r[3]))
  /\ UNCHANGED <<nextId, pushed, torn, views>>

Clear(c) ==
  /\ soa[c] # NoSoa
  /\ CanBorrowMut(c)
  /\ LET r == clear(heap, soa[c], torn)
     IN  /\ heap' = r[1]
         /\ soa' = [soa EXCEPT ![c] = r[2]]
         /\ torn' = r[3]
  /\ last' = Call("clear", c, 0, Unit)
  /\ UNCHANGED <<nextId, pushed, held, views>>

Sort(c) ==
  /\ soa[c] # NoSoa
  /\ CanBorrowMut(c)
  /\ \E indices \in sorted_indices(heap, soa[c]) :
       heap' = sort_unstable_by(heap, soa[c], indices)
  /\ last' = Call("sort_unstable_by", c, 0, Unit)
  /\ UNCHANGED <<soa, nextId, pushed, held, torn, views>>

Clone(src, dst, fail) ==
  /\ src # dst
  /\ soa[src] # NoSoa
  /\ soa[dst] = NoSoa
  /\ CanBorrowShared(src)
  /\ LET r == clone(heap, soa[src], nextId, fail)
     IN  /\ heap' = r[1]
         /\ soa' = [soa EXCEPT ![dst] = r[2]]
         /\ last' = Call("clone", src, dst, IF r[2] = NoSoa THEN Panic ELSE Unit)
  /\ nextId' = nextId + Min(fail, soa[src].len)
  /\ UNCHANGED <<pushed, held, torn, views>>

Drop(c) ==
  /\ soa[c] # NoSoa
  /\ CanBorrowMut(c)
  /\ LET r == drop(heap, soa[c], torn)
     IN  /\ heap' = r[1]
         /\ torn' = r[2]
  /\ soa' = [soa EXCEPT ![c] = NoSoa]
  /\ last' = Call("drop", c, 0, Unit)
  /\ UNCHANGED <<nextId, pushed, held, views>>

DropPanics(c, k) ==
  /\ soa[c] # NoSoa
  /\ CanBorrowMut(c)
  /\ k < soa[c].len
  /\ LET r == drop_unwinding(heap, soa[c], torn, k)
     IN  /\ heap' = r[1]
         /\ torn' = r[2]
  /\ soa' = [soa EXCEPT ![c] = NoSoa]
  /\ last' = Call("drop", c, k, Panic)
  /\ UNCHANGED <<nextId, pushed, held, views>>

\* slices_mut().f[index] = value, for index < len: the caller's assignment
\* through the mutable slice drops the value the slot held and moves a new
\* value (a new object, of datum d) into the slot.
Write(c, f, index, d) ==
  /\ soa[c] # NoSoa
  /\ CanBorrowShared(c)
  /\ index < soa[c].len
  /\ torn' = torn (+) SetToBag({Slot(heap, soa[c].ptr[f], index)})
  /\ heap' = WriteSlot(heap, soa[c].ptr[f], index, FieldValue(nextId, f, d))
  /\ nextId' = nextId + 1
  /\ last' = Call("slices_mut", c, <<f, index>>, Unit)
  /\ UNCHANGED <<soa, pushed, held, views>>

Slices(c) ==
  /\ soa[c] # NoSoa
  /\ CanBorrowShared(c)
  /\ views' = views (+) Returned(slices(soa[c], c))
  /\ last' = Call("slices", c, 0, Unit)
  /\ UNCHANGED <<soa, heap, nextId, pushed, held, torn>>

Iters(c) ==
  /\ soa[c] # NoSoa
  /\ CanBorrowShared(c)
  /\ views' = views (+) Returned(iters(soa[c], c))
  /\ last' = Call("iters", c, 0, Unit)
  /\ UNCHANGED <<soa, heap, nextId, pushed, held, torn>>

SlicesMut(c) ==
  /\ soa[c] # NoSoa
  /\ CanBorrowShared(c)
  /\ views' = views (+) Returned(slices_mut(soa[c], c))
  /\ last' = Call("slices_mut", c, 0, Unit)
  /\ UNCHANGED <<soa, heap, nextId, pushed, held, torn>>

Get(c, index) ==
  /\ soa[c] # NoSoa
  /\ CanBorrowShared(c)
  /\ IF index >= soa[c].len
     THEN /\ last' = Call("get", c, index, Panic)
          /\ UNCHANGED views
     ELSE /\ views' = views (+) Returned(get(soa[c], c, index))
          /\ last' = Call("get", c, index, Unit)
  /\ UNCHANGED <<soa, heap, nextId, pushed, held, torn>>

\* The caller lets go of a view.
Release(v) ==
  /\ BagIn(v, views)
  /\ views' = views (-) SetToBag({v})
  /\ last' = Call("release", v.c, 0, Unit)
  /\ UNCHANGED <<soa, heap, nextId, pushed, held, torn>>

\* A call of layout_for_capacity about to be made, for a struct of the
\* field types and a capacity.
LayoutInput(types, capacity) ==
  Call("layout_input", 0, <<types, capacity>>, Unit)

LayoutForCapacity ==
  /\ last.op = "layout_input"
  /\ LET r == layout_for_capacity(last.arg[1], last.arg[2])
     IN  last' = Call("layout_for_capacity", 0, last.arg,
                      IF r.ok THEN [tag |-> "layout", val |-> r] ELSE Panic)
  /\ UNCHANGED <<soa, heap, nextId, pushed, held, torn, views>>

----------------------------------------------------------------------------
\* Specifications

\* Spec: one container, every operation but clone.
Next ==
  \/ \E c \in Solo, d \in OneKey : nextId <= MaxRecs /\ Push(c, d)
  \/ \E c \in Solo : Pop(c)
  \/ \E c \in Solo : \E index \in 0..(soa[c].len - 1) : SwapRemove(c, index)
  \/ \E c \in Solo : Clear(c)
  \/ \E c \in Solo : soa[c].len <= MaxSortRecs /\ Sort(c)
  \/ \E c \in Solo : Drop(c)

Spec == Init /\ [][Next]_vars

\* SpecGrow: a container that is only pushed to.
NextGrow ==
  \E c \in Solo, d \in GrowKeys : nextId <= MaxPush /\ Push(c, d)

SpecGrow == Init /\ [][NextGrow]_vars

\* SpecSort: pushes of records with any data, and sorts.
NextSort ==
  \/ \E c \in Solo, d \in Keys : nextId <= MaxSortRecs /\ Push(c, d)
  \/ \E c \in Solo : Sort(c)

SpecSort == Init /\ [][NextSort]_vars

\* SpecClone: two containers, the second made by clone; every clone succeeds.
NextClone ==
  \/ \E c \in Containers, d \in OneKey : nextId <= MaxCloneRecs /\ Push(c, d)
  \/ \E c \in Containers : Pop(c)
  \/ \E c \in Containers : \E index \in 0..(soa[c].len - 1) : SwapRemove(c, index)
  \/ \E c \in Containers : Clear(c)
  \/ \E c \in Containers : Sort(c)
  \/ \E src, dst \in Containers :
       /\ nextId + soa[src].len <= MaxCloneRecs + 1
       /\ Clone(src, dst, NFields * soa[src].len)

SpecClone == Init /\ [][NextClone]_vars

\* SpecWrite: two containers, and writes through slices_mut.
NextWrite ==
  \/ \E c \in Containers, d \in OneKey : nextId <= MaxCloneRecs /\ Push(c, d)
  \/ \E c \in Containers : Pop(c)
  \/ \E c \in Containers : \E index \in 0..(soa[c].len - 1) : SwapRemove(c, index)
  \/ \E c \in Containers : Sort(c)
  \/ \E src, dst \in Containers :
       /\ nextId + soa[src].len <= MaxCloneRecs + 1
       /\ Clone(src, dst, NFields * soa[src].len)
  \/ \E c \in Containers, f \in Fields, d \in Written :
       \E index \in 0..(soa[c].len - 1) :
         nextId <= MaxCloneRecs /\ Write(c, f, index, d)

SpecWrite == Init /\ [][NextWrite]_vars

\* SpecUnwind: clones in which a field's clone may panic.
NextUnwind ==
  \/ \E c \in Containers, d \in OneKey : nextId <= MaxCloneRecs /\ Push(c, d)
  \/ \E c \in Containers : Drop(c)
  \/ \E src, dst \in Containers : \E fail \in 0..(NFields * soa[src].len) :
       /\ nextId + soa[src].len <= MaxCloneRecs + 1
       /\ Len(heap) < MaxCloneRecs + 1
       /\ Clone(src, dst, fail)

SpecUnwind == Init /\ [][NextUnwind]_vars

\* SpecViews: one container, and the views the caller obtains and keeps.
NextViews ==
  \/ \E c \in Solo, d \in OneKey : nextId <= MaxViewRecs /\ Push(c, d)
  \/ \E c \in Solo : Pop(c)
  \/ \E c \in Solo : \E index \in 0..soa[c].len : SwapRemove(c, index)
  \/ \E c \in Solo : Clear(c)
  \/ \E c \in Solo : Drop(c)
  \/ \E c \in Solo : BagCardinality(views) + NFields <= MaxViews /\ Slices(c)
  \/ \E c \in Solo : BagCardinality(views) + NFields <= MaxViews /\ Iters(c)
  \/ \E c \in Solo : BagCardinality(views) + NFields <= MaxViews /\ SlicesMut(c)
  \/ \E c \in Solo : \E index \in 0..soa[c].len :
       BagCardinality(views) + NFields <= MaxViews /\ Get(c, index)
  \/ \E v \in BagToSet(views) : Release(v)

SpecViews == Init /\ [][NextViews]_vars

\* SpecLayout: layout_for_capacity, of every list of field types and every
\* capacity.
InitLayout ==
  /\ soa = [c \in Containers |-> NoSoa]
  /\ heap = <<>>
  /\ nextId = 1
  /\ pushed = <<>>
  /\ held = {}
  /\ torn = EmptyBag
  /\ views = EmptyBag
  /\ \E types \in TypeLists, capacity \in 0..MaxLayoutCap :
       last = LayoutInput(types, capacity)

NextLayout == LayoutForCapacity

SpecLayout == InitLayout /\ [][NextLayout]_vars

\* SpecTeardown: one container, whose records' teardown may panic when the
\* container is dropped.
NextTeardown ==
  \/ \E c \in Solo, d \in OneKey : nextId <= MaxRecs /\ Push(c, d)
  \/ \E c \in Solo : Pop(c)
  \/ \E c \in Solo : \E index \in 0..(soa[c].len - 1) : SwapRemove(c, index)
  \/ \E c \in Solo : Clear(c)
  \/ \E c \in Solo : Drop(c)
  \/ \E c \in Solo : \E k \in 0..(soa[c].len - 1) : DropPanics(c, k)

SpecTeardown == Init /\ [][NextTeardown]_vars

\* SpecBounds: one container; get and swap_remove at indices below len, at
\* len and beyond it.
NextBounds ==
  \/ \E c \in Solo, d \in OneKey : nextId <= MaxGetRecs /\ Push(c, d)
  \/ \E c \in Solo : Pop(c)
  \/ \E c \in Solo : Clear(c)
  \/ \E c \in Solo : \E index \in 0..(soa[c].len + 1) : SwapRemove(c, index)
  \/ \E c \in Solo : \E index \in 0..(soa[c].len + 1) :
       BagCardinality(views) + NFields <= MaxViews /\ Get(c, index)
  \/ \E v \in BagToSet(views) : Release(v)

SpecBounds == Init /\ [][NextBounds]_vars

\* SpecCapacity: one container and every call that keeps it: push, pop,
\* swap_remove, clear, sort_unstable_by, get, slices and iters.  The caller
\* lets go of the views it holds before it calls again.
NextCapacity ==
  \/ \E c \in Solo, d \in OneKey :
       views = EmptyBag /\ nextId <= MaxRecs /\ Push(c, d)
  \/ \E c \in Solo : views = EmptyBag /\ Pop(c)
  \/ \E c \in Solo : \E index \in 0..(soa[c].len - 1) :
       views = EmptyBag /\ SwapRemove(c, index)
  \/ \E c \in Solo : views = EmptyBag /\ Clear(c)
  \/ \E c \in Solo : views = EmptyBag /\ soa[c].len <= MaxSortRecs /\ Sort(c)
  \/ \E c \in Solo : views = EmptyBag /\ Slices(c)
  \/ \E c \in Solo : views = EmptyBag /\ Iters(c)
  \/ \E c \in Solo : \E index \in 0..(soa[c].len - 1) :
       views = EmptyBag /\ Get(c, index)
  \/ \E v \in BagToSet(views) : Release(v)

SpecCapacity == Init /\ [][NextCapacity]_vars

----------------------------------------------------------------------------
\* The claims

\* The values of BagToSet(torn), counted.
TornCount(v) == CopiesIn(v, torn)

\* C1: in every state reachable by push, pop, swap_remove, clear,
\* sort_unstable_by and clone, every container (the one clone returns
\* included) has len <= capacity, and in every field's sub-array exactly the
\* slots 0..len-1 are initialised: no slot at an index >= len holds a value.
C1_LenWithinCapacity ==
  \A c \in Containers :
    soa[c] # NoSoa =>
      /\ soa[c].len <= soa[c].capacity
      /\ \A f \in Fields :
           \A i \in 0..(soa[c].capacity - 1) :
             (i < soa[c].len) <=> (Slot(heap, soa[c].ptr[f], i) # Uninit)

\* A clone that has grown (1 -> 4) and holds two records, beside its source,
\* after a swap_remove took a record out of it.
C1_Witness ==
  /\ soa[1] # NoSoa /\ soa[2] # NoSoa
  /\ soa[1].len = 1 /\ soa[1].capacity = 4
  /\ soa[2].len = 2 /\ soa[2].capacity = 4
  /\ last.op = "swap_remove" /\ last.c = 2 /\ last.arg = 0

\* The elements of a sequence.
Range(q) == {q[i] : i \in DOMAIN q}

\* The records container c holds, at 0..len-1.
Live(c) == {RecordAt(heap, soa[c], i) : i \in 0..(soa[c].len - 1)}

\* The container has torn record r down (in clear or drop), or a field of it.
Removed(r) == \E f \in Fields : TornCount(r[f]) >= 1

\* C2: after any sequence of push, pop, swap_remove, clear, growth and
\* sort_unstable_by, the tuple of the fields at every index i < len is one
\* record that was pushed as a whole, no record is held twice, and the live
\* records are the pushed records less those returned by pop / swap_remove
\* and those torn down by clear (or drop).
C2_RecordsKeptTogether ==
  \A c \in Solo :
    /\ \A i \in 0..(soa[c].len - 1) :
         RecordAt(heap, soa[c], i) \in Range(pushed)
    /\ \A i, j \in 0..(soa[c].len - 1) :
         i # j => RecordAt(heap, soa[c], i) # RecordAt(heap, soa[c], j)
    /\ Live(c) = {r \in Range(pushed) : r \notin held /\ ~Removed(r)}

\* Five pushes (a growth 4 -> 8 relocating four records), a pop, a
\* swap_remove, and a sort that left the third pushed record first.
C2_Witness ==
  /\ soa[1].capacity = 8 /\ soa[1].len = 3
  /\ Cardinality(held) = 2
  /\ last.op = "sort_unstable_by"
  /\ RecordAt(heap, soa[1], 0) = pushed[3]

\* C3: starting from an empty container, after every push of a sequence of
\* pushes (across the growths 0 -> 4 -> 8 -> 16), slices() returns for every
\* field a slice as long as the sequence pushed so far, whose element at
\* each index i is that field of the i-th pushed record.
C3_SlicesEqualPushed ==
  \A c \in Solo :
    LET sl == slices(soa[c], c)
    IN  \A f \in Fields :
          /\ sl[f].n = Len(pushed)
          /\ \A i \in 0..(Len(pushed) - 1) :
               Contents(heap, sl[f])[i] = pushed[i + 1][f]

\* Nine pushes: the third growth (8 -> 16) has relocated eight records, the
\* first and the last of different data.
C3_Witness ==
  /\ Len(pushed) = 9
  /\ soa[1].len = 9 /\ soa[1].capacity = 16
  /\ pushed[1][1].d # pushed[9][1].d
  /\ last.op = "push"

\* C4: a call of sort_unstable_by, with the total order of the first field
\* as comparator, leaves len and capacity as they were and the container
\* sorted (no record is Greater than a later one), its records being a
\* permutation of the records before the call, each moved with all its fields.
C4_SortStep ==
  \A c \in Solo :
    (last'.op = "sort_unstable_by" /\ last'.c = c) =>
      /\ soa'[c].len = soa[c].len
      /\ soa'[c].capacity = soa[c].capacity
      /\ \A i, j \in 0..(soa'[c].len - 1) :
           i < j => cmp(RecordAt(heap', soa'[c], i),
                        RecordAt(heap', soa'[c], j)) # "Greater"
      /\ \E p \in Perms(soa[c].len) :
           \A i \in 0..(soa[c].len - 1) :
             RecordAt(heap', soa'[c], i) = RecordAt(heap, soa[c], p[i])

C4_SortSorts == [][C4_SortStep]_vars

\* tests::sort: the records of first fields 3, 1, 2 pushed in this order
\* and sorted come out as 1, 2, 3, each with its own second field.
C4_Witness ==
  /\ last.op = "sort_unstable_by"
  /\ pushed = <<Record(1, 3), Record(2, 1), Record(3, 2)>>
  /\ Records(heap, soa[1]) = <<Record(2, 1), Record(3, 2), Record(1, 3)>>

\* C5: swap_remove(k), k < len = n, returns the record that was at index
\* k and leaves length n-1 and the capacity as it was; when k < n-1 index k
\* then holds the record that was at n-1; every other index below n-1 keeps
\* its record (with k = n-1: all of 0..n-2).
C5_SwapRemoveStep ==
  \A c \in Solo :
    \A k \in 0..(soa[c].len - 1) :
      (last'.op = "swap_remove" /\ last'.c = c /\ last'.arg = k) =>
        LET n == soa[c].len
        IN  /\ last'.ret = Some(RecordAt(heap, soa[c], k))
            /\ soa'[c].len = n - 1
            /\ soa'[c].capacity = soa[c].capacity
            /\ k < n - 1 =>
                 RecordAt(heap', soa'[c], k) = RecordAt(heap, soa[c], n - 1)
            /\ \A i \in 0..(n - 2) :
                 i # k => RecordAt(heap', soa'[c], i) = RecordAt(heap, soa[c], i)

C5_SwapRemove == [][C5_SwapRemoveStep]_vars

\* swap_remove(1) on five records (capacity 8): the second pushed record
\* was returned and the fifth took its place.
C5_Witness ==
  /\ last.op = "swap_remove" /\ last.arg = 1
  /\ last.ret = Some(pushed[2])
  /\ soa[1].len = 4 /\ soa[1].capacity = 8
  /\ RecordAt(heap, soa[1], 1) = pushed[5]

\* The field values of the records container c holds, as a bag.
LiveValues(c) ==
  SetToBag({RecordAt(heap, soa[c], i)[f] : i \in 0..(soa[c].len - 1), f \in Fields})

\* C6, of a state: every value torn down is a field of a pushed record and
\* was torn down once; no field of a record the container holds or has
\* returned to the caller was torn down; a record the container has torn
\* down has each field torn down once; once the container is dropped every
\* pushed record was returned to the caller or torn down.
C6_TornOnce ==
  /\ \A v \in BagToSet(torn) :
       /\ TornCount(v) = 1
       /\ \E r \in Range(pushed) : \E f \in Fields : r[f] = v
  /\ \A r \in held : \A f \in Fields : TornCount(r[f]) = 0
  /\ \A c \in Solo : \A r \in Live(c) : \A f \in Fields : TornCount(r[f]) = 0
  /\ \A r \in Range(pushed) :
       Removed(r) => \A f \in Fields : TornCount(r[f]) = 1
  /\ \A c \in Solo :
       soa[c] = NoSoa => \A r \in Range(pushed) : r \in held \/ Removed(r)

\* C6, of a call: clear and drop tear down each field of each of the m
\* records the container holds once (m teardowns per field) and nothing
\* else; push (growing or not), pop, swap_remove and sort_unstable_by tear
\* down nothing; what pop and swap_remove return goes to the caller.
C6_TeardownStep ==
  \A c \in Solo :
    /\ (last'.c = c /\ last'.op \in {"clear", "drop"}) =>
         /\ torn' = torn (+) LiveValues(c)
         /\ held' = held
    /\ (last'.c = c /\ last'.op \in {"push", "pop", "swap_remove", "sort_unstable_by"}) =>
         torn' = torn
    /\ (last'.c = c /\ last'.op \in {"pop", "swap_remove"} /\ last'.ret.tag = "some") =>
         held' = held \cup {last'.ret.val}
    /\ C6_TornOnce'

C7_CloneStep ==
  \A src, dst \in Containers :
    (last'.op = "clone" /\ last'.c = src /\ last'.arg = dst /\ last'.ret = Unit) =>
      LET n == soa[src].len
      IN  /\ soa'[dst].len = n
          /\ soa'[dst].capacity = n
          /\ \A i \in 0..(n - 1) : \A f \in Fields :
               LET a == Slot(heap', soa'[dst].ptr[f], i)
                   b == Slot(heap, soa[src].ptr[f], i)
               IN  a.d = b.d /\ a.f = b.f /\ a.id >= nextId
          /\ soa'[src] = soa[src]
          /\ Records(heap', soa'[src]) = Records(heap, soa[src])
          /\ n = 0 => (soa'[dst] = new /\ heap' = heap)
          /\ n > 0 => /\ soa'[dst].ptr[1].buf = Len(heap) + 1
                      /\ heap'[soa'[dst].ptr[1].buf].live

\* C7, of a later call on one container: a push, pop, swap_remove, sort or
\* write through slices_mut leaves the other container, and the records it
\* holds, as they were.
C7_OtherUnchanged ==
  \A c, other \in Containers :
    (/\ other # c
     /\ last'.c = c
     /\ last'.op \in {"push", "pop", "swap_remove", "sort_unstable_by", "slices_mut"}) =>
      /\ soa'[other] = soa[other]
      /\ Records(heap', soa'[other]) = Records(heap, soa[other])

\* C7, of a state: two containers never share a buffer.
C7_OwnBuffers ==
  \A c, other \in Containers :
    (other # c /\ soa[c].capacity > 0 /\ soa[other].capacity > 0) =>
      soa[c].ptr[1].buf # soa[other].ptr[1].buf

\* C7: clone returns an equal, tight, independent container.
C7_CloneIndependent ==
  [][C7_CloneStep /\ C7_OtherUnchanged /\ C7_OwnBuffers']_vars

\* A record pushed, the container (capacity 4) cloned into a tight clone
\* (capacity 1), and the clone's first field overwritten since: the clone
\* differs from its source, which kept its datum.
C7_Witness ==
  /\ last.op = "slices_mut" /\ last.c = 2
  /\ soa[1].len = 1 /\ soa[1].capacity = 4
  /\ soa[2].len = 1 /\ soa[2].capacity = 1
  /\ Slot(heap, soa[1].ptr[1], 0).d = 1
  /\ Slot(heap, soa[2].ptr[1], 0).d = 2

\* The buffers some container owns.
Owned == {soa[c].ptr[1].buf : c \in {k \in Containers : soa[k].capacity > 0}}

\* C8: after a clone in which the duplication of a field value failed, the
\* source container is still there and every buffer not yet released is
\* owned by a container: the buffer the clone acquired was released, and
\* no duplicated value is left in it.
C8_NoLeakOnCloneFailure ==
  (last.op = "clone" /\ last.ret = Panic) =>
    /\ soa[last.c] # NoSoa
    /\ \A b \in DOMAIN heap : heap[b].live => b \in Owned

\* C9: every view the caller holds of one or more slots refers to a buffer
\* that has not been released, and to slots below the container's len that
\* hold a record's values.
C9_ViewsInvalidated ==
  \A v \in BagToSet(views) :
    v.n > 0 =>
      /\ heap[v.ptr.buf].live
      /\ soa[v.c] # NoSoa
      /\ v.start + v.n <= soa[v.c].len
      /\ \A i \in 0..(v.n - 1) : Slot(heap, v.ptr, v.start + i) # Uninit

\* Two views share a slot of one field sub-array.
Overlap(v, w) ==
  /\ v.n > 0 /\ w.n > 0
  /\ v.ptr = w.ptr
  /\ v.start < w.start + w.n
  /\ w.start < v.start + v.n

\* C10: a writable view the caller holds shares no slot of its field
\* sub-array with another view the caller holds, writable or readable.
C10_WritableExclusive ==
  \A v \in BagToSet(views) :
    (v.mut /\ v.n > 0) =>
      /\ CopiesIn(v, views) = 1
      /\ \A w \in BagToSet(views) \ {v} : ~Overlap(v, w)

\* The bytes [offset, offset + size).
ByteRange(offset, size) == offset..(offset + size - 1)

\* The bytes of the sub-array of field k, in a layout l for the types and
\* the capacity.
SubArray(l, types, capacity, k) ==
  ByteRange(l.offsets[k], types[k].size * capacity)

\* C11: for every capacity and every list of field types for which
\* layout_for_capacity returns, the byte ranges of the fields' sub-arrays
\* are pairwise disjoint, every offset is a multiple of its field's
\* alignment, and every range lies inside the allocation's size.
C11_LayoutDisjoint ==
  (last.op = "layout_for_capacity" /\ last.ret # Panic) =>
    LET types == last.arg[1]
        capacity == last.arg[2]
        l == last.ret.val
    IN  /\ DOMAIN l.offsets = DOMAIN types
        /\ \A k \in DOMAIN types :
             /\ l.offsets[k] % types[k].align = 0
             /\ SubArray(l, types, capacity, k) \subseteq ByteRange(0, l.layout.size)
        /\ \A j, k \in DOMAIN types :
             j # k => SubArray(l, types, capacity, j)
                        \cap SubArray(l, types, capacity, k) = {}

\* A u8 field followed by a u64 field, and the reverse followed by a u8, at
\* capacity 3: the second sub-array starts after 5 bytes of padding, the
\* third right after the second.
C11_Witness ==
  /\ last.op = "layout_for_capacity"
  /\ last.arg = <<<<Type(1, 1), Type(8, 8), Type(1, 1)>>, 3>>
  /\ last.ret # Panic
  /\ last.ret.val.offsets = <<0, 8, 32>>
  /\ last.ret.val.layout.size = 35

\* The buffers acquired and not released.
LiveBuffers == {b \in DOMAIN heap : heap[b].live}

\* C12: the buffers acquired and not released are exactly the buffers of
\* the containers with capacity > 0, one each: a container with capacity 0
\* has none, no container points into a released buffer, and a buffer whose
\* container was torn down (normally or by a failing teardown of a record)
\* or has grown out of it is released.
C12_BufferAccounting ==
  /\ \A c \in Containers :
       soa[c].capacity > 0 =>
         /\ soa[c].ptr[1].buf \in LiveBuffers
         /\ \A f \in Fields : soa[c].ptr[f].buf = soa[c].ptr[1].buf
  /\ \A c \in Containers :
       (soa[c] # NoSoa /\ soa[c].capacity = 0) =>
         \A f \in Fields : soa[c].ptr[f] = Dangling(f)
  /\ LiveBuffers = Owned

\* C13, of a call get(index) or swap_remove(index): with index >= len it
\* panics and the container, the buffers, the records handed out, the
\* values torn down and the views held are as before; with index < len it
\* does not panic, and get changes none of them but returns, for every
\* field, one new read-only reference whose target is the value stored at
\* that index of that field.
C13_BoundsStep ==
  \A c \in Containers :
    (last'.c = c /\ last'.op \in {"get", "swap_remove"}) =>
      LET index == last'.arg
      IN  IF index >= soa[c].len
          THEN /\ last'.ret = Panic
               /\ UNCHANGED <<soa, heap, held, torn, views>>
          ELSE /\ last'.ret # Panic
               /\ last'.op = "get" =>
                    /\ UNCHANGED <<soa, heap, held, torn>>
                    /\ BagCardinality(views') = BagCardinality(views) + NFields
                    /\ \A f \in Fields :
                         \E v \in BagToSet(views') :
                           /\ CopiesIn(v, views') = CopiesIn(v, views) + 1
                           /\ ~v.mut
                           /\ v.n = 1
                           /\ Contents(heap', v)[0] = RecordAt(heap, soa[c], index)[f]

\* C13: get and swap_remove check their index against len.
C13_BoundsContract == [][C13_BoundsStep]_vars

\* Two records pushed, get(1) returned references to the second (still
\* held), and get(2) then panicked.
C13_Witness ==
  /\ last = Call("get", 1, 2, Panic)
  /\ soa[1].len = 2
  /\ \A f \in Fields :
       BagIn(View("get", 1, soa[1].ptr[f], 1, 1, FALSE), views)

\* C14, of a call pop(): on a container with len = 0 it returns None and
\* does not panic, and the container (len 0, its capacity, its pointers),
\* the buffers, the records handed out and the values torn down are as
\* before; it returns None on no other container.
C14_PopEmptyStep ==
  \A c \in Containers :
    (last'.c = c /\ last'.op = "pop") =>
      /\ soa[c].len = 0 =>
           /\ last'.ret = None
           /\ UNCHANGED <<soa, heap, held, torn, pushed, nextId>>
      /\ last'.ret = None => soa[c].len = 0

\* C14: pop on an empty container returns None and changes nothing.
C14_PopEmpty == [][C14_PopEmptyStep]_vars

\* pop returned None on a container that was pushed to and emptied: it
\* keeps its buffer of capacity 4.
C14_Witness ==
  /\ last = Call("pop", 1, 0, None)
  /\ Len(pushed) >= 2
  /\ soa[1].len = 0
  /\ soa[1].capacity = 4
  /\ heap[soa[1].ptr[1].buf].live

\* C15, of a state in which a call is made (any state with a container:
\* drop is a call): push(r) followed at once by pop() returns Some(r) and
\* gives back the len and the records at every index below it that the
\* container had before the push (across a growth too).
C15_RoundTrip ==
  \A c \in Containers :
    soa[c] # NoSoa =>
      \A d \in Keys :
        \A p \in {push(heap, soa[c], Record(nextId, d))} :
          \A q \in {pop(p[1], p[2])} :
            /\ q[3] = Some(Record(nextId, d))
            /\ q[2].len = soa[c].len
            /\ Records(q[1], q[2]) = Records(heap, soa[c])

\* C15, of a call pop() on a container with len > 0: it returns the record
\* at index len - 1, len decreases by one, and the records at the indices
\* 0..len-2 are as before.
C15_PopStep ==
  \A c \in Containers :
    (last'.c = c /\ last'.op = "pop" /\ soa[c].len > 0) =>
      /\ last'.ret = Some(RecordAt(heap, soa[c], soa[c].len - 1))
      /\ soa'[c].len = soa[c].len - 1
      /\ \A i \in 0..(soa[c].len - 2) :
           RecordAt(heap', soa'[c], i) = RecordAt(heap, soa[c], i)

\* C15, of a call push(r): the record at index len is r, len increases by
\* one, and the records at the indices below are as before.
C15_PushStep ==
  \A c \in Containers :
    (last'.c = c /\ last'.op = "push") =>
      /\ RecordAt(heap', soa'[c], soa[c].len) = pushed'[Len(pushed')]
      /\ soa'[c].len = soa[c].len + 1
      /\ \A i \in 0..(soa[c].len - 1) :
           RecordAt(heap', soa'[c], i) = RecordAt(heap, soa[c], i)

\* C15: push and pop are last in, first out.
C15_PushPop ==
  [][C15_PushStep /\ C15_PopStep /\ C15_RoundTrip]_vars

\* A push onto a full container of four records (which grew to capacity 8)
\* followed at once by a pop that returned the record pushed.
C15_Witness ==
  /\ last.op = "pop"
  /\ Len(pushed) = 5
  /\ last.ret = Some(pushed[5])
  /\ soa[1].len = 4
  /\ soa[1].capacity = 8
  /\ Records(heap, soa[1]) = SubSeq(pushed, 1, 4)

\* The capacities of a container that grew from new(): 0, 4, 8, 16, ...
GrownCapacity(capacity) ==
  capacity = 0 \/ \E k \in 0..MaxRecs : capacity = 4 * 2^k

\* C16, of a call on a container: a push made with len = capacity moves it
\* to a new buffer of capacity max(2 * capacity, 4) and releases the old
\* one; every other call (a push with len < capacity, pop, swap_remove,
\* clear, sort_unstable_by, get, slices, iters) leaves the capacity and the
\* pointers as they were and acquires and releases no buffer.  The capacity
\* is always 0 or 4 * 2^k.
C16_CapacityStep ==
  \A c \in Solo :
    /\ GrownCapacity(soa'[c].capacity)
    /\ IF last'.op = "push" /\ last'.c = c /\ soa[c].len = soa[c].capacity
       THEN /\ soa'[c].capacity = Max(2 * soa[c].capacity, 4)
            /\ soa'[c].ptr[1].buf = Len(heap) + 1
            /\ Len(heap') = Len(heap) + 1
            /\ heap'[Len(heap')].live
            /\ soa[c].capacity > 0 => ~heap'[soa[c].ptr[1].buf].live
       ELSE /\ soa'[c].capacity = soa[c].capacity
            /\ soa'[c].ptr = soa[c].ptr
            /\ Len(heap') = Len(heap)
            /\ \A b \in DOMAIN heap : heap'[b].live = heap[b].live

\* C16: the capacity changes only by the growth of a push on a full
\* container.
C16_CapacityOnlyGrows == [][C16_CapacityStep]_vars

\* Five pushes grew the container to capacity 8 (its second buffer), two
\* records were removed, and slices() was called: the capacity is still 8.
C16_Witness ==
  /\ last.op = "slices"
  /\ soa[1].capacity = 8
  /\ soa[1].len = 3
  /\ Len(heap) = 2
  /\ ~heap[1].live
  /\ heap[2].live

\* The state of the loop before its first iteration, for the container s
\* in heap h and what the sort of the indices left.
LoopStart(h, indices) ==
  [h |-> h, indices |-> indices, lookup |-> build_lookup(indices)]

\* The positions among the first n at which the loop swaps.
Swaps(h, s, indices, n) ==
  {i \in 0..(n - 1) : sort_loop(LoopStart(h, indices), s, i).indices[i] # i}

\* C17, of the loop of sort_unstable_by on the container s in heap h, for
\* the sorted index sequence indices: after the step for position i, every
\* position j <= i holds the record the sequence assigned to j; for every
\* position p > i, indices[p] is where the record that belongs at p now is,
\* and lookup[indices[p]] = p; the step's dest is >= i; and the loop swaps
\* at no more than len - 1 positions.
LoopInvariant(h, s, indices) ==
  /\ \A i \in 0..(s.len - 1) :
       \A before \in {sort_loop(LoopStart(h, indices), s, i)} :
         \A st \in {sort_step(before, s, i)} :
           /\ before.indices[i] >= i
           /\ \A j \in 0..i :
                RecordAt(st.h, s, j) = RecordAt(h, s, indices[j])
           /\ \A p \in (i + 1)..(s.len - 1) :
                /\ RecordAt(st.h, s, st.indices[p]) = RecordAt(h, s, indices[p])
                /\ st.lookup[st.indices[p]] = p
  /\ Cardinality(Swaps(h, s, indices, s.len)) <= s.len - 1

\* C17: in every state in which sort_unstable_by may be called on two or
\* more records, whatever the sort of the indices leaves, the loop that
\* applies the permutation keeps its invariant.
C17_SortLoopInvariant ==
  \A c \in Solo :
    soa[c].len >= 2 =>
      \A indices \in sorted_indices(heap, soa[c]) :
        LoopInvariant(heap, soa[c], indices)

\* The records of first fields 2, 3, 1 pushed in this order and sorted: the
\* loop swapped at positions 0 and 1 (len - 1 swaps), the second swap at the
\* location the bookkeeping of the first recorded.
C17_Witness ==
  /\ last.op = "sort_unstable_by"
  /\ pushed = <<Record(1, 2), Record(2, 3), Record(3, 1)>>
  /\ Records(heap, soa[1]) = <<Record(3, 1), Record(1, 2), Record(2, 3)>>

\* n pushes onto the container s in heap h: <<heap, container>>.
RECURSIVE PushN(_, _, _)
PushN(h, s, n) ==
  IF n = 0 THEN <<h, s>>
  ELSE LET p == PushN(h, s, n - 1)
       IN  push(p[1], p[2], Record(nextId + n - 1, 1))

\* C18, of a call clear() on a container of len n: the loop ends after n
\* iterations (len is n - k after k of them, 0 after n); the call leaves
\* len = 0 and the capacity, the pointers and the buffers as they were,
\* every slot below n empty, each field value of the n records torn down
\* once more and nothing handed to the caller; and up to capacity pushes
\* after it stay in the same buffer.
C18_ClearStep ==
  \A c \in Solo :
    (last'.c = c /\ last'.op = "clear") =>
      /\ \A k \in 0..soa[c].len :
           clear_first(heap, soa[c], torn, k)[2].len = soa[c].len - k
      /\ \A done \in {clear_first(heap, soa[c], torn, soa[c].len)} :
           /\ heap' = done[1]
           /\ soa'[c] = done[2]
           /\ torn' = done[3]
           /\ \A after \in {PushN(done[1], done[2], soa[c].capacity)} :
                /\ after[2].ptr = soa[c].ptr
                /\ after[2].capacity = soa[c].capacity
                /\ after[2].len = soa[c].capacity
                /\ Len(after[1]) = Len(heap)
      /\ soa'[c] = [soa[c] EXCEPT !.len = 0]
      /\ Len(heap') = Len(heap)
      /\ \A b \in DOMAIN heap : heap'[b].live = heap[b].live
      /\ \A i \in 0..(soa[c].len - 1) : \A f \in Fields :
           Slot(heap', soa[c].ptr[f], i) = Uninit
      /\ \A v \in BagToSet(LiveValues(c)) : CopiesIn(v, torn') = CopiesIn(v, torn) + 1
      /\ BagCardinality(torn') = BagCardinality(torn) + NFields * soa[c].len
      /\ UNCHANGED <<held, pushed, nextId>>

====
